---- MODULE Spec2Model ----
(***************************************************************************)
(* Meal Maker: the recipe matching engine of MealMakerPrototypeGUI.py.     *)
(*                                                                         *)
(* A text is a sequence of one-character strings.  Spec is the data path   *)
(* of a search: the ingredient string handed to MealMakerShell.on_search   *)
(* is tokenised (lines 491-492) and SearchWorker.run scores the tokens     *)
(* against the module-level catalog `recipes` with suggest_recipes         *)
(* (lines 112-123, top_k = 3).  CallSpec calls suggest_recipes directly,   *)
(* with any list of strings and any top_k.  ThreadSpec runs several calls  *)
(* of suggest_recipes line by line in concurrent worker threads.           *)
(* ShellSpec is MealMakerShell: the loading overlay and its label, the     *)
(* search threads and their queued signals, voice capture and cook action. *)
(*                                                                         *)
(* A score overlap / max(1, len(r_set)) is kept as the exact fraction      *)
(* [num, den]; fractions are compared by cross-multiplication, which       *)
(* orders them as float() orders the quotients of such small integers.     *)
(* The catalog is the module-level list the source invites to replace      *)
(* (lines 35-47); Init draws it from the catalogs within the bound.  The   *)
(* i-th recipe of a catalog is named i.                                    *)
(***************************************************************************)
EXTENDS Integers, Sequences, FiniteSets, TLC

VARIABLES
    recipes,            \* the module-level catalog
    text,               \* the ingredient string last handed to on_search
    ingredients,        \* the list last handed to suggest_recipes (SearchWorker.ingredients)
    top_k,              \* the top_k last handed to suggest_recipes
    ret,                \* what that call returned or raised
    pc,
    frames,             \* the frames of the suggest_recipes calls running in worker threads
    scored_lists,       \* the list `scored` of each of those calls
    vosk_enabled,       \* VOSK_AVAILABLE and MealMakerShell.vosk_model_path is set
    loading_visible,    \* MealMakerShell.loading_overlay is shown
    loading_label,      \* the text of MealMakerShell.loading_label
    page,               \* the current widget of MealMakerShell.stack
    results_items,      \* the cards of ResultsPage, as set_results left them
    searches,           \* one record per on_search call: its text, QThread and SearchWorker
    events,             \* the queued slot calls waiting in the GUI thread's event queue
    timers,             \* the texts of the pending QTimer.singleShot(50, on_search) calls
    listening,          \* the VoskWorker threads still capturing
    cooking,            \* the finish_cook threads whose done() has not run
    requests,           \* the searches, voice captures and cook actions requested so far
    crashed             \* the process was aborted

callVars == <<text, ingredients, top_k, ret, pc>>

threadVars == <<frames, scored_lists>>

shellVars == <<vosk_enabled, loading_visible, loading_label, page, results_items,
               searches, events, timers, listening, cooking, requests, crashed>>

vars == <<recipes, callVars, threadVars, shellVars>>

----------------------------------------------------------------------------
(* Bounds of the model *)

\* the longest ingredient string typed
MaxTextLen == 3
\* the largest catalog: its recipes plus their ingredient entries
MaxCatalogSize == 5
\* the longest list handed to suggest_recipes directly
MaxUserIngredients == 2
\* the largest top_k handed to suggest_recipes directly
MaxTopK == 3
\* the number of worker threads that call suggest_recipes at the same time
MaxCalls == 2
\* the largest catalog those concurrent calls read
MaxSharedCatalogSize == 3
\* the searches, voice captures and cook actions requested of the shell
MaxRequests == 3

\* the top_k SearchWorker.run passes
WorkerTopK == 3

----------------------------------------------------------------------------
(* Characters and texts *)

Space == " "
Comma == ","

\* a letter in both cases, an upper-case non-ASCII letter, the two separators
Alphabet == {"a", "A", "É", Comma, Space}

Texts == UNION {[1..n -> Alphabet] : n \in 0..MaxTextLen}

Min(a, b) == IF a <= b THEN a ELSE b
Max(a, b) == IF a >= b THEN a ELSE b

Range(s) == {s[i] : i \in 1..Len(s)}

Reverse(s) == [i \in 1..Len(s) |-> s[Len(s) + 1 - i]]

\* str.swapcase on one character, where str.lower was meant
LowerChar_swapcase(c) ==
    CASE c = "A" -> "a"
      [] c = "a" -> "A"
      [] c = "É" -> "é"
      [] c = "é" -> "É"
      [] OTHER -> c

\* str.lower on one character
LowerChar(c) ==
    CASE c = "A" -> "a"
      [] c = "É" -> "é"
      [] OTHER -> c

\* str.lower
lower(s) == [i \in 1..Len(s) |-> LowerChar(s[i])]

\* str.replace(old, new) for one-character old and new
replace(s, old, new) == [i \in 1..Len(s) |-> IF s[i] = old THEN new ELSE s[i]]

RECURSIVE lstrip(_)
lstrip(s) ==
    IF s # <<>> /\ Head(s) = Space THEN lstrip(Tail(s)) ELSE s

\* str.strip(): leading and trailing whitespace removed
strip(s) == Reverse(lstrip(Reverse(lstrip(s))))

RECURSIVE SplitFrom(_, _, _)
SplitFrom(s, cur, acc) ==
    IF s = <<>>
    THEN IF cur = <<>> THEN acc ELSE Append(acc, cur)
    ELSE IF Head(s) = Space
         THEN SplitFrom(Tail(s), <<>>, IF cur = <<>> THEN acc ELSE Append(acc, cur))
         ELSE SplitFrom(Tail(s), Append(cur, Head(s)), acc)

\* str.split() without arguments: maximal runs of non-whitespace
split(s) == SplitFrom(s, <<>>, <<>>)

\* [f(i) for i in xs if p(i)] with f = strip and p = "strip(i) is non-empty"
StripNonEmpty(xs) ==
    LET kept == SelectSeq(xs, LAMBDA i : strip(i) # <<>>)
    IN  [j \in 1..Len(kept) |-> strip(kept[j])]

\* on_search splitting on whitespace only, commas left inside the tokens
on_search_ingredients_no_comma(ingredient_string) ==
    StripNonEmpty(split(lower(ingredient_string)))

\* on_search, lines 491-492: the ingredient list handed to the worker
on_search_ingredients(ingredient_string) ==
    LET raw == replace(lower(ingredient_string), Comma, Space)
    IN  StripNonEmpty(split(raw))

----------------------------------------------------------------------------
(* The catalog *)

\* ingredient names of catalog entries; line 116 lower-cases them
IngredientNames == {<<"a">>, <<"É">>}

\* a recipe dict; the i-th entry of a catalog carries the i-th name
Recipe(i, ings) ==
    [name |-> i, ingredients |-> ings, instructions |-> i, tags |-> {}]

\* the lists of ingredient lists that take at most `size` recipes and entries
RECURSIVE IngredientTables(_)
IngredientTables(size) ==
    {<<>>} \cup
    UNION {{<<ings>> \o rest :
               ings \in [1..n -> IngredientNames],
               rest \in IngredientTables(size - 1 - n)}
           : n \in 0..(size - 1)}

Catalogs ==
    {[i \in 1..Len(tbl) |-> Recipe(i, tbl[i])] : tbl \in IngredientTables(MaxCatalogSize)}

----------------------------------------------------------------------------
(* suggest_recipes *)

\* line 113
user_set_of(user_ingredients) ==
    {lower(strip(i)) : i \in {x \in Range(user_ingredients) : strip(x) # <<>>}}

lower_all(xs) == [i \in 1..Len(xs) |-> lower(xs[i])]

\* line 116
r_set_of(r) == {lower(x) : x \in Range(r.ingredients)}

\* the divisor without its guard against an empty recipe
denominator_unguarded(r_set) == Cardinality(r_set)

\* line 119: the divisor
denominator(r_set) == Max(1, Cardinality(r_set))

\* scored_entry dividing by the size of the user's set instead of the recipe's
scored_entry_by_user(user_set, r) ==
    LET r_set == r_set_of(r)
        overlap == Cardinality(user_set \cap r_set)
    IN  [name |-> r.name,
         score |-> [num |-> overlap, den |-> Max(1, Cardinality(user_set))],
         ingredients |-> r.ingredients,
         instructions |-> r.instructions]

\* scored_entry dividing by the length of the ingredient list, duplicates included
scored_entry_list_len(user_set, r) ==
    LET r_set == r_set_of(r)
        overlap == Cardinality(user_set \cap r_set)
    IN  [name |-> r.name,
         score |-> [num |-> overlap, den |-> Max(1, Len(r.ingredients))],
         ingredients |-> r.ingredients,
         instructions |-> r.instructions]

\* scored_entry handing out the normalized ingredient names instead of the recipe's list
scored_entry_normalized(user_set, r) ==
    LET r_set == r_set_of(r)
        overlap == Cardinality(user_set \cap r_set)
    IN  [name |-> r.name,
         score |-> [num |-> overlap, den |-> denominator(r_set)],
         ingredients |-> lower_all(r.ingredients),
         instructions |-> r.instructions]

\* lines 116-120: the dict appended for recipe r
scored_entry(user_set, r) ==
    LET r_set == r_set_of(r)
        overlap == Cardinality(user_set \cap r_set)
    IN  [name |-> r.name,
         score |-> [num |-> overlap, den |-> denominator(r_set)],
         ingredients |-> r.ingredients,
         instructions |-> r.instructions]

\* x["score"] < y["score"] on the quotients
ScoreLess(x, y) == x.score.num * y.score.den < y.score.num * x.score.den

RECURSIVE InsertAsc(_, _)
InsertAsc(sorted, x) ==
    IF sorted = <<>> THEN <<x>>
    ELSE IF ScoreLess(x, Head(sorted))
         THEN <<x>> \o sorted
         ELSE <<Head(sorted)>> \o InsertAsc(Tail(sorted), x)

RECURSIVE StableSortAsc(_)
StableSortAsc(s) ==
    IF s = <<>> THEN <<>>
    ELSE InsertAsc(StableSortAsc(SubSeq(s, 1, Len(s) - 1)), s[Len(s)])

\* a descending sort that sorts ascending and reverses: equal keys end reversed
sort_reverse_unstable(s) == Reverse(StableSortAsc(s))

\* line 122: list.sort(key=score, reverse=True); CPython reverses the list,
\* sorts it stably in ascending key order and reverses it again
sort_reverse(s) == Reverse(StableSortAsc(Reverse(s)))

\* a slice that keeps one entry too many
slice_to_inclusive(s, k) ==
    IF k >= 0 THEN SubSeq(s, 1, Min(k + 1, Len(s)))
    ELSE SubSeq(s, 1, Max(0, Len(s) + k + 1))

\* line 123: scored[:top_k]
slice_to(s, k) ==
    IF k >= 0 THEN SubSeq(s, 1, Min(k, Len(s)))
    ELSE SubSeq(s, 1, Max(0, Len(s) + k))

\* suggest_recipes sorting the catalog itself in place
suggest_recipes_sorts_catalog(catalog, user_ingredients, k) ==
    LET user_set == user_set_of(user_ingredients)
        scored == [i \in 1..Len(catalog) |-> scored_entry(user_set, catalog[i])]
        sorted == sort_reverse(scored)
    IN  [kind |-> "return", value |-> slice_to(sorted, k),
         recipes |-> [i \in 1..Len(catalog) |-> catalog[sorted[i].name]]]

\* lines 112-123.  The outcome is the returned list or the exception raised by
\* the division of line 119, together with the catalog as the call leaves it
\* (line 122 sorts the fresh list `scored`, never `recipes`).
suggest_recipes(catalog, user_ingredients, k) ==
    LET user_set == user_set_of(user_ingredients)
        scored == [i \in 1..Len(catalog) |-> scored_entry(user_set, catalog[i])]
        raises == \E i \in 1..Len(catalog) : scored[i].score.den = 0
    IN  IF raises
        THEN [kind |-> "raise", value |-> <<>>, recipes |-> catalog]
        ELSE [kind |-> "return", value |-> slice_to(sort_reverse(scored), k),
              recipes |-> catalog]

----------------------------------------------------------------------------
(* The state machine *)

\* the values of top_k handed to suggest_recipes directly: -1, 0 and the positive ones
TopKs == (0 - 1)..MaxTopK

\* the elements of the lists handed to suggest_recipes directly: a plain name, one
\* to strip and lower-case, one to lower-case, one that is blank
UserTokens == {<<"a">>, <<"A", Space>>, <<"É">>, <<Space>>}

UserLists == UNION {[1..n -> UserTokens] : n \in 0..MaxUserIngredients}

NoRet == [kind |-> "none", value |-> <<>>]

Outcome(r) == [kind |-> r.kind, value |-> r.value]

\* the texts of the loading label, their ellipsis character written as three dots
\* lines 465 and 545
LookingLabel == "Looking for best recipes..."
\* line 560
ListeningLabel == "Listening... speak now"
\* line 540
PreppingLabel == "Prepping your recipe..."

\* MealMakerShell.__init__, lines 425-480: the overlay hidden, the home page shown
ShellIdle ==
    /\ vosk_enabled = FALSE
    /\ loading_visible = FALSE
    /\ loading_label = LookingLabel
    /\ page = "home"
    /\ results_items = <<>>
    /\ searches = <<>>
    /\ events = <<>>
    /\ timers = <<>>
    /\ listening = 0
    /\ cooking = 0
    /\ requests = 0
    /\ crashed = FALSE

Init ==
    /\ recipes \in Catalogs
    /\ text = <<>>
    /\ ingredients = <<>>
    /\ top_k = WorkerTopK
    /\ ret = NoRet
    /\ pc = "ready"
    /\ frames = <<>>
    /\ scored_lists = <<>>
    /\ ShellIdle

\* on_search(t) up to the signal of its worker: the text is tokenised and
\* SearchWorker.run calls suggest_recipes(ingredients, top_k=3)
Search(t) ==
    /\ pc = "ready"
    /\ LET worker_ingredients == on_search_ingredients(t)
           r == suggest_recipes(recipes, worker_ingredients, WorkerTopK)
       IN  /\ ingredients' = worker_ingredients
           /\ ret' = Outcome(r)
           /\ recipes' = r.recipes
    /\ text' = t
    /\ top_k' = WorkerTopK
    /\ pc' = "done"
    /\ UNCHANGED <<threadVars, shellVars>>

Next == \E t \in Texts : Search(t)

Spec == Init /\ [][Next]_vars

\* a direct call suggest_recipes(ui, k)
Call(ui, k) ==
    /\ pc = "ready"
    /\ LET r == suggest_recipes(recipes, ui, k)
       IN  /\ ret' = Outcome(r)
           /\ recipes' = r.recipes
    /\ ingredients' = ui
    /\ top_k' = k
    /\ pc' = "done"
    /\ UNCHANGED <<text, threadVars, shellVars>>

\* the identical call, made again
CallAgain ==
    /\ pc \in {"done", "repeated"}
    /\ LET r == suggest_recipes(recipes, ingredients, top_k)
       IN  /\ ret' = Outcome(r)
           /\ recipes' = r.recipes
    /\ pc' = "repeated"
    /\ UNCHANGED <<text, ingredients, top_k, threadVars, shellVars>>

CallNext ==
    \/ \E ui \in UserLists, k \in TopKs : Call(ui, k)
    \/ CallAgain

CallSpec == Init /\ [][CallNext]_vars

----------------------------------------------------------------------------
(* Concurrent calls: every SearchWorker.run calls suggest_recipes in a thread *)
(* of its own (lines 136-138, 495-512); the threads share the catalog.  A    *)
(* step of a thread is one line of suggest_recipes, or one pass of its loop. *)

Threads == 1..MaxCalls

\* the ingredient lists of the workers: one to strip and lower-case, one to lower-case
WorkerIngredients == {<< <<"A", Space>> >>, << <<"É">> >>}

SharedCatalogs ==
    {[i \in 1..Len(tbl) |-> Recipe(i, tbl[i])] :
        tbl \in IngredientTables(MaxSharedCatalogSize)}

\* one list `scored` for all the calls, as a module-level list would be
scored_of_module(w) == 1

\* line 114: `scored` is a local of the call, so each frame has its own list
scored_of(w) == w

\* the frame of a call about to run line 113
Frame(user_ingredients) ==
    [user_ingredients |-> user_ingredients, top_k |-> WorkerTopK, line |-> 113,
     user_set |-> {}, i |-> 1, result |-> NoRet]

ThreadInit ==
    /\ recipes \in SharedCatalogs
    /\ text = <<>>
    /\ ingredients = <<>>
    /\ top_k = WorkerTopK
    /\ ret = NoRet
    /\ pc = "ready"
    /\ frames \in [Threads -> {Frame(ui) : ui \in WorkerIngredients}]
    /\ scored_lists = [w \in Threads |-> <<>>]
    /\ ShellIdle

\* line 113
Line113(w) ==
    /\ frames[w].line = 113
    /\ frames' = [frames EXCEPT ![w].user_set = user_set_of(frames[w].user_ingredients),
                                ![w].line = 114]
    /\ UNCHANGED <<recipes, callVars, scored_lists, shellVars>>

\* line 114
Line114(w) ==
    /\ frames[w].line = 114
    /\ scored_lists' = [scored_lists EXCEPT ![scored_of(w)] = <<>>]
    /\ frames' = [frames EXCEPT ![w].line = 115]
    /\ UNCHANGED <<recipes, callVars, shellVars>>

\* lines 115-120: one pass of the loop, or its end
Line115(w) ==
    /\ frames[w].line = 115
    /\ IF frames[w].i <= Len(recipes)
       THEN /\ scored_lists' = [scored_lists EXCEPT ![scored_of(w)] =
                              Append(@, scored_entry(frames[w].user_set, recipes[frames[w].i]))]
            /\ frames' = [frames EXCEPT ![w].i = @ + 1]
       ELSE /\ frames' = [frames EXCEPT ![w].line = 122]
            /\ UNCHANGED scored_lists
    /\ UNCHANGED <<recipes, callVars, shellVars>>

\* line 122
Line122(w) ==
    /\ frames[w].line = 122
    /\ scored_lists' = [scored_lists EXCEPT ![scored_of(w)] = sort_reverse(@)]
    /\ frames' = [frames EXCEPT ![w].line = 123]
    /\ UNCHANGED <<recipes, callVars, shellVars>>

\* line 123
Line123(w) ==
    /\ frames[w].line = 123
    /\ frames' = [frames EXCEPT
                     ![w].result = [kind |-> "return",
                                    value |-> slice_to(scored_lists[scored_of(w)], frames[w].top_k)],
                     ![w].line = 0]
    /\ UNCHANGED <<recipes, callVars, scored_lists, shellVars>>

ThreadNext ==
    \E w \in Threads :
        \/ Line113(w)
        \/ Line114(w)
        \/ Line115(w)
        \/ Line122(w)
        \/ Line123(w)

ThreadSpec == ThreadInit /\ [][ThreadNext]_vars

----------------------------------------------------------------------------
(* The shell: MealMakerShell, its search workers, voice capture and cook     *)
(* action.  A slot runs to its end in the GUI thread, so each slot is one    *)
(* action; a signal emitted in another thread is queued in `events` and its  *)
(* slots run when the GUI thread takes them from the queue, in order.        *)

\* the texts typed into the input box or recognized by the voice capture
ShellTexts == {<<"a">>, <<"É">>}

\* the catalog of the shell: two recipes, one ingredient each
ShellCatalog == <<Recipe(1, << <<"a">> >>), Recipe(2, << <<"É">> >>)>>

ShellInit ==
    /\ recipes = ShellCatalog
    /\ text = <<>>
    /\ ingredients = <<>>
    /\ top_k = WorkerTopK
    /\ ret = NoRet
    /\ pc = "ready"
    /\ frames = <<>>
    /\ scored_lists = <<>>
    /\ vosk_enabled \in BOOLEAN
    /\ loading_visible = FALSE
    /\ loading_label = LookingLabel
    /\ page = "home"
    /\ results_items = <<>>
    /\ searches = <<>>
    /\ events = <<>>
    /\ timers = <<>>
    /\ listening = 0
    /\ cooking = 0
    /\ requests = 0
    /\ crashed = FALSE

\* lines 495-512: the QThread and the SearchWorker of one on_search call
SearchRecord(t) ==
    [text |-> t, ingredients |-> on_search_ingredients(t),
     worker |-> "started", thread |-> "running", handled |-> FALSE]

\* self.thread still refers to a QThread that has not finished
PreviousThreadRunning ==
    /\ searches # <<>>
    /\ searches[Len(searches)].thread # "exited"

\* on_search, lines 488-512.  Line 495 rebinds self.thread: when the QThread it
\* referred to is still running, dropping the last reference to it destroys a
\* running thread, which aborts the process or leaves that thread running.
on_search(ingredient_string) ==
    /\ loading_visible' = TRUE
    /\ \/ /\ PreviousThreadRunning
          /\ crashed' = TRUE
          /\ UNCHANGED searches
       \/ /\ searches' = Append(searches, SearchRecord(ingredient_string))
          /\ UNCHANGED crashed

\* HomePage.on_find, lines 316-321, with on_search connected to start_search
OnFind(t) ==
    /\ ~crashed
    /\ page = "home"
    /\ requests < MaxRequests
    /\ on_search(t)
    /\ requests' = requests + 1
    /\ UNCHANGED <<recipes, callVars, threadVars, vosk_enabled, loading_label, page,
                   results_items, events, timers, listening, cooking>>

\* SearchWorker.run, lines 136-142: the slot calls that the signal the worker
\* of search i emits queues for the GUI thread (connections of lines 503-507)
run_signals(i, ingredient_list) ==
    LET r == suggest_recipes(recipes, ingredient_list, WorkerTopK)
    IN  IF r.kind = "return"
        THEN <<[slot |-> "_search_finished", search |-> i, arg |-> r.value],
               [slot |-> "thread.quit", search |-> i, arg |-> <<>>]>>
        ELSE <<[slot |-> "_search_error", search |-> i, arg |-> <<>>]>>

\* SearchWorker.run in the thread of search i
SearchWorkerRun(i) ==
    /\ ~crashed
    /\ i \in 1..Len(searches)
    /\ searches[i].worker = "started"
    /\ events' = events \o run_signals(i, searches[i].ingredients)
    /\ searches' = [searches EXCEPT ![i].worker = "emitted"]
    /\ UNCHANGED <<recipes, callVars, threadVars, vosk_enabled, loading_visible,
                   loading_label, page, results_items, timers, listening, cooking,
                   requests, crashed>>

\* lines 515-523
formatted(results) ==
    [n \in 1..Len(results) |->
        [name |-> results[n].name, score |-> results[n].score,
         ingredients |-> results[n].ingredients,
         instructions |-> results[n].instructions]]

\* _search_finished, lines 514-526
search_finished(e) ==
    /\ results_items' = formatted(e.arg)
    /\ page' = "results"
    /\ loading_visible' = FALSE
    /\ searches' = [searches EXCEPT ![e.search].handled = TRUE]
    /\ UNCHANGED <<timers, loading_label>>

\* QThread.quit, connected at line 507
thread_quit(e) ==
    /\ searches' = [searches EXCEPT ![e.search].thread = "quit"]
    /\ UNCHANGED <<results_items, page, loading_visible, timers, loading_label>>

\* _search_error, lines 528-530
search_error(e) ==
    /\ loading_visible' = FALSE
    /\ searches' = [searches EXCEPT ![e.search].handled = TRUE]
    /\ UNCHANGED <<results_items, page, timers, loading_label>>

\* _on_vosk_result, lines 573-578
on_vosk_result(e) ==
    /\ loading_visible' = FALSE
    /\ timers' = Append(timers, e.arg)
    /\ UNCHANGED <<results_items, page, searches, loading_label>>

\* _on_vosk_error, lines 580-582
on_vosk_error(e) ==
    /\ loading_visible' = FALSE
    /\ UNCHANGED <<results_items, page, searches, timers, loading_label>>

\* the GUI thread runs the slot at the head of its event queue
Deliver ==
    /\ ~crashed
    /\ events # <<>>
    /\ LET e == Head(events)
       IN  CASE e.slot = "_search_finished" -> search_finished(e)
             [] e.slot = "thread.quit" -> thread_quit(e)
             [] e.slot = "_search_error" -> search_error(e)
             [] e.slot = "_on_vosk_result" -> on_vosk_result(e)
             [] e.slot = "_on_vosk_error" -> on_vosk_error(e)
    /\ events' = Tail(events)
    /\ UNCHANGED <<recipes, callVars, threadVars, vosk_enabled, listening, cooking,
                   requests, crashed>>

\* the event loop of the thread of search i ends after quit()
ThreadExit(i) ==
    /\ ~crashed
    /\ i \in 1..Len(searches)
    /\ searches[i].thread = "quit"
    /\ searches' = [searches EXCEPT ![i].thread = "exited"]
    /\ UNCHANGED <<recipes, callVars, threadVars, vosk_enabled, loading_visible,
                   loading_label, page, results_items, events, timers, listening,
                   cooking, requests, crashed>>

\* the timer of line 578 fires: on_search(text)
TimerFires ==
    /\ ~crashed
    /\ timers # <<>>
    /\ on_search(Head(timers))
    /\ timers' = Tail(timers)
    /\ UNCHANGED <<recipes, callVars, threadVars, vosk_enabled, loading_label, page,
                   results_items, events, listening, cooking, requests>>

\* a card of the results page is clicked: on_show_details, lines 533-535
OnShowDetails ==
    /\ ~crashed
    /\ page = "results"
    /\ results_items # <<>>
    /\ page' = "details"
    /\ UNCHANGED <<recipes, callVars, threadVars, vosk_enabled, loading_visible,
                   loading_label, results_items, searches, events, timers, listening,
                   cooking, requests, crashed>>

\* the back buttons, lines 472 and 474
Back ==
    /\ ~crashed
    /\ page \in {"results", "details"}
    /\ page' = IF page = "details" THEN "results" ELSE "home"
    /\ UNCHANGED <<recipes, callVars, threadVars, vosk_enabled, loading_visible,
                   loading_label, results_items, searches, events, timers, listening,
                   cooking, requests, crashed>>

\* on_cook, lines 537-548, up to the start of the finish_cook thread
OnCook ==
    /\ ~crashed
    /\ page = "details"
    /\ requests < MaxRequests
    /\ loading_visible' = TRUE
    /\ loading_label' = PreppingLabel
    /\ cooking' = cooking + 1
    /\ requests' = requests + 1
    /\ UNCHANGED <<recipes, callVars, threadVars, vosk_enabled, page, results_items,
                   searches, events, timers, listening, crashed>>

\* done(), lines 543-546, when the timer of line 547 fires
CookDone ==
    /\ ~crashed
    /\ cooking > 0
    /\ loading_visible' = FALSE
    /\ loading_label' = LookingLabel
    /\ cooking' = cooking - 1
    /\ UNCHANGED <<recipes, callVars, threadVars, vosk_enabled, page, results_items,
                   searches, events, timers, listening, requests, crashed>>

\* line 547 sets the timer in the finish_cook thread, which runs no event loop
\* and ends at once: the timer may never fire
CookTimerLost ==
    /\ ~crashed
    /\ cooking > 0
    /\ cooking' = cooking - 1
    /\ UNCHANGED <<recipes, callVars, threadVars, vosk_enabled, loading_visible,
                   loading_label, page, results_items, searches, events, timers,
                   listening, requests, crashed>>

\* on_listen_request, lines 553-571; a capture counts as two requests, itself
\* and the search its result starts
OnListenRequest ==
    /\ ~crashed
    /\ page = "home"
    /\ IF ~vosk_enabled
       THEN UNCHANGED <<loading_label, loading_visible, listening, requests>>
       ELSE /\ requests + 2 <= MaxRequests
            /\ loading_label' = ListeningLabel
            /\ loading_visible' = TRUE
            /\ listening' = listening + 1
            /\ requests' = requests + 2
    /\ UNCHANGED <<recipes, callVars, threadVars, vosk_enabled, page, results_items,
                   searches, events, timers, cooking, crashed>>

\* VoskWorker.run, lines 236-270: a non-empty text is recognized
VoskRecognized(t) ==
    /\ ~crashed
    /\ listening > 0
    /\ listening' = listening - 1
    /\ events' = Append(events, [slot |-> "_on_vosk_result", search |-> 0, arg |-> t])
    /\ UNCHANGED <<recipes, callVars, threadVars, vosk_enabled, loading_visible,
                   loading_label, page, results_items, searches, timers, cooking,
                   requests, crashed>>

\* VoskWorker.run, lines 236-270: the capture fails
VoskFails ==
    /\ ~crashed
    /\ listening > 0
    /\ listening' = listening - 1
    /\ events' = Append(events, [slot |-> "_on_vosk_error", search |-> 0, arg |-> <<>>])
    /\ UNCHANGED <<recipes, callVars, threadVars, vosk_enabled, loading_visible,
                   loading_label, page, results_items, searches, timers, cooking,
                   requests, crashed>>

ShellNext ==
    \/ \E t \in ShellTexts : OnFind(t)
    \/ \E i \in 1..MaxRequests : SearchWorkerRun(i)
    \/ Deliver
    \/ \E i \in 1..MaxRequests : ThreadExit(i)
    \/ TimerFires
    \/ OnShowDetails
    \/ Back
    \/ OnCook
    \/ CookDone
    \/ CookTimerLost
    \/ OnListenRequest
    \/ \E t \in ShellTexts : VoskRecognized(t)
    \/ VoskFails

ShellSpec == ShellInit /\ [][ShellNext]_vars

----------------------------------------------------------------------------
(* The vocabulary of the properties, stated without the operators above *)

IsSeparator(c) == c = Comma \/ c = Space

\* the maximal runs of non-separator characters of t, lower-cased, as a set
NormalizedSet(t) ==
    {lower(SubSeq(t, p[1], p[2])) : p \in
        {q \in (1..Len(t)) \X (1..Len(t)) :
            /\ q[1] <= q[2]
            /\ \A m \in q[1]..q[2] : ~IsSeparator(t[m])
            /\ (q[1] = 1 \/ IsSeparator(t[q[1] - 1]))
            /\ (q[2] = Len(t) \/ IsSeparator(t[q[2] + 1]))}}

RECURSIVE JoinTokens(_)
JoinTokens(S) ==
    IF S = {} THEN <<>>
    ELSE LET x == CHOOSE y \in S : TRUE
         IN  IF S = {x} THEN x ELSE x \o <<Space>> \o JoinTokens(S \ {x})

\* the canonical text of t: the tokens of its normalized set, each once, in a
\* fixed order, separated by single blanks
CanonicalText(t) == JoinTokens(NormalizedSet(t))

\* the distinct lower-cased ingredients of an ingredient list
DistinctOf(ings) == {lower(ings[i]) : i \in DOMAIN ings}

\* how many distinct ingredients of the list the text's normalized set holds
OverlapCount(t, ings) == Cardinality(NormalizedSet(t) \cap DistinctOf(ings))

Answered == pc # "ready" /\ ret.kind = "return"

Entries == IF Answered THEN Range(ret.value) ELSE {}

\* the catalog recipe an entry was built from
RecipeOf(e) == recipes[e.name]

\* a/b = c/d for fractions with positive denominators
FracEq(a, b, c, d) == a * d = c * b

----------------------------------------------------------------------------
(* C1, under Spec *)

\* the score of every returned entry is |user set /\ recipe's distinct
\* lower-cased ingredients| / max(1, number of distinct ingredients), and when
\* top_k is at least the catalog size every recipe of the catalog is returned
C1_ScoreFormula ==
    /\ \A e \in Entries :
          /\ e.score.den > 0
          /\ FracEq(e.score.num, e.score.den,
                    OverlapCount(text, RecipeOf(e).ingredients),
                    Max(1, Cardinality(DistinctOf(RecipeOf(e).ingredients))))
    /\ Answered /\ top_k >= Len(recipes) =>
          {e.name : e \in Entries} = 1..Len(recipes)

\* C1 as stated: the score formula, and of two recipes with the same overlap
\* count the one with fewer distinct ingredients has the strictly higher score
C1_SameOverlapFewerWins ==
    /\ C1_ScoreFormula
    /\ \A e, f \in Entries :
          /\ OverlapCount(text, RecipeOf(e).ingredients)
               = OverlapCount(text, RecipeOf(f).ingredients)
          /\ Cardinality(DistinctOf(RecipeOf(e).ingredients))
               < Cardinality(DistinctOf(RecipeOf(f).ingredients))
          => ScoreLess(f, e)

\* C1 amended: the score formula, and of two recipes with the same positive
\* overlap count the one with fewer distinct ingredients has the strictly
\* higher score
C1_SamePositiveOverlapFewerWins ==
    /\ C1_ScoreFormula
    /\ \A e, f \in Entries :
          /\ OverlapCount(text, RecipeOf(e).ingredients) > 0
          /\ OverlapCount(text, RecipeOf(e).ingredients)
               = OverlapCount(text, RecipeOf(f).ingredients)
          /\ Cardinality(DistinctOf(RecipeOf(e).ingredients))
               < Cardinality(DistinctOf(RecipeOf(f).ingredients))
          => ScoreLess(f, e)

\* a query in upper case answered with two recipes of overlap 1, one of one
\* distinct ingredient scoring 1/1 and one of two scoring 1/2
C1_Witness ==
    /\ Answered
    /\ "A" \in Range(text)
    /\ \E e, f \in Entries :
          /\ OverlapCount(text, RecipeOf(e).ingredients) = 1
          /\ OverlapCount(text, RecipeOf(f).ingredients) = 1
          /\ Cardinality(DistinctOf(RecipeOf(e).ingredients)) = 1
          /\ Cardinality(DistinctOf(RecipeOf(f).ingredients)) = 2
          /\ e.score.num = 1 /\ e.score.den = 1
          /\ f.score.num = 1 /\ f.score.den = 2

----------------------------------------------------------------------------
(* C2, under CallSpec *)

\* the returned list is in non-increasing score order, and entries of equal
\* score are in catalog order
C2_SortedStable ==
    Answered =>
        \A i, j \in 1..Len(ret.value) :
            i < j =>
                /\ ~ScoreLess(ret.value[i], ret.value[j])
                /\ (~ScoreLess(ret.value[j], ret.value[i])
                      => ret.value[i].name < ret.value[j].name)

\* two recipes both fully matched by the query, top_k = 2, returned in catalog order
C2_Witness ==
    /\ Answered
    /\ top_k = 2
    /\ Len(recipes) = 2
    /\ Len(ret.value) = 2
    /\ \A i \in 1..2 : ret.value[i].score.num = ret.value[i].score.den
    /\ ret.value[1].name = 1 /\ ret.value[2].name = 2

----------------------------------------------------------------------------
(* C3, under CallSpec *)

\* over a non-empty catalog and with positive top_k the result has
\* min(top_k, catalog size) entries
C3_ResultLength ==
    pc # "ready" /\ Len(recipes) > 0 /\ top_k > 0 =>
        /\ ret.kind = "return"
        /\ Len(ret.value) = Min(top_k, Len(recipes))

\* a result truncated to a top_k below the catalog size
C3_Witness ==
    /\ Answered
    /\ top_k > 0
    /\ top_k < Len(recipes)
    /\ Len(ret.value) = top_k

----------------------------------------------------------------------------
(* C4, under Spec *)

\* a query text that normalizes to the empty set is answered with the empty list
C4_EmptyQueryEmptyResult ==
    pc # "ready" /\ NormalizedSet(text) = {} =>
        ret.kind = "return" /\ ret.value = <<>>

----------------------------------------------------------------------------
(* C5, under CallSpec *)

\* a call with top_k zero or negative returns what the same call with
\* top_k = 1 returns
C5_NonPositiveTopKAsOne ==
    pc # "ready" /\ top_k <= 0 =>
        ret = Outcome(suggest_recipes(recipes, ingredients, 1))

----------------------------------------------------------------------------
(* C6, under Spec *)

\* every distinct lower-cased ingredient of the entry's recipe is in the user's set
FullyMatched(e) == DistinctOf(RecipeOf(e).ingredients) \subseteq NormalizedSet(text)

ScoreInUnitInterval(e) ==
    /\ e.score.den > 0
    /\ 0 <= e.score.num
    /\ e.score.num <= e.score.den

\* C6 as stated: every score lies in [0, 1] and is 1 when every distinct
\* ingredient of the recipe is in the user's set
C6_ScoreRangeFullIsOne ==
    \A e \in Entries :
        /\ ScoreInUnitInterval(e)
        /\ FullyMatched(e) => e.score.num = e.score.den

\* C6 amended: every score lies in [0, 1] and is 1 when the recipe has at least
\* one ingredient and every distinct ingredient of it is in the user's set
C6_ScoreRangeNonEmptyFullIsOne ==
    \A e \in Entries :
        /\ ScoreInUnitInterval(e)
        /\ (RecipeOf(e).ingredients # <<>> /\ FullyMatched(e))
              => e.score.num = e.score.den

\* a recipe listing one ingredient twice, fully matched by a query of two
\* tokens, scores 1, next to a recipe without ingredients scoring 0
C6_Witness ==
    /\ Answered
    /\ Cardinality(NormalizedSet(text)) = 2
    /\ \E e, f \in Entries :
          /\ Len(RecipeOf(e).ingredients) = 2
          /\ Cardinality(DistinctOf(RecipeOf(e).ingredients)) = 1
          /\ FullyMatched(e)
          /\ e.score.num = 1 /\ e.score.den = 1
          /\ RecipeOf(f).ingredients = <<>>
          /\ f.score.num = 0

----------------------------------------------------------------------------
(* C7, under Spec *)

----------------------------------------------------------------------------
(* C8, under CallSpec *)

\* no step changes the catalog, and a call made again returns what it returned
C8_CatalogUnchangedRepeatEqual ==
    [][/\ recipes' = recipes
       /\ pc \in {"done", "repeated"} => ret' = ret]_vars

\* a repeated call whose answer orders the recipes other than the catalog does
C8_Witness ==
    /\ pc = "repeated"
    /\ ret.kind = "return"
    /\ Len(ret.value) >= 2
    /\ ret.value[1].name = 2
    /\ recipes[1].name = 1

----------------------------------------------------------------------------
(* C9, under Spec *)

\* no query is answered over an empty catalog
C9_NoAnswerOverEmptyCatalog ==
    Len(recipes) = 0 => ret.kind # "return"

----------------------------------------------------------------------------
(* C10, under Spec *)

\* no token of the text is an ingredient of any recipe of the catalog
NoTokenMatches ==
    \A i \in 1..Len(recipes) : OverlapCount(text, recipes[i].ingredients) = 0

\* every query is answered with a list, never with an exception, and when no
\* token matches any recipe ingredient no returned entry has a positive score
C10_NeverRaises ==
    pc # "ready" =>
        /\ ret.kind = "return"
        /\ NoTokenMatches => \A e \in Entries : e.score.num = 0

\* a non-ASCII text matching nothing, answered over a catalog that holds a
\* recipe without ingredients
C10_Witness ==
    /\ Answered
    /\ "É" \in Range(text)
    /\ NoTokenMatches
    /\ \E i \in 1..Len(recipes) : recipes[i].ingredients = <<>>
    /\ ret.value # <<>>

----------------------------------------------------------------------------
(* C11, under Spec *)

\* normalization is idempotent: the list on_search hands over is normalized, so
\* the normalization of line 113 (trim, lower-case, drop empty tokens,
\* deduplicate) leaves its set as it is, applied once or twice, and so does
\* on_search's own tokenisation of its tokens written out again
C11_NormalizationIdempotent ==
    pc # "ready" =>
        /\ user_set_of(ingredients) = Range(ingredients)
        /\ user_set_of(on_search_ingredients(JoinTokens(user_set_of(ingredients))))
             = user_set_of(ingredients)
        /\ Range(on_search_ingredients(JoinTokens(Range(ingredients))))
             = Range(ingredients)

\* a text in upper case that repeats a token: two tokens, one distinct
C11_Witness ==
    /\ pc = "done"
    /\ "A" \in Range(text)
    /\ Len(ingredients) = 2
    /\ user_set_of(ingredients) = {<<"a">>}

----------------------------------------------------------------------------
(* C13, under CallSpec *)

\* every returned entry carries the name, the ingredient list and the
\* instructions of one catalog recipe, and no recipe is returned twice
C13_EntriesAreCatalogRecipes ==
    Answered =>
        /\ \A i \in 1..Len(ret.value) :
              /\ ret.value[i].name \in 1..Len(recipes)
              /\ ret.value[i].ingredients = recipes[ret.value[i].name].ingredients
              /\ ret.value[i].instructions = recipes[ret.value[i].name].instructions
        /\ \A i, j \in 1..Len(ret.value) :
              ret.value[i].name = ret.value[j].name => i = j

\* a truncated, re-ordered result whose first entry is the second recipe, with
\* its upper-case ingredient name as the catalog spells it
C13_Witness ==
    /\ Answered
    /\ Len(ret.value) >= 1
    /\ Len(ret.value) < Len(recipes)
    /\ ret.value[1].name = 2
    /\ <<"É">> \in Range(ret.value[1].ingredients)

----------------------------------------------------------------------------
(* C12, under ThreadSpec *)

\* whatever the interleaving of the concurrent calls, each returns what the
\* same call returns when it runs alone over the catalog
C12_ConcurrentCallsAsAlone ==
    \A w \in Threads :
        frames[w].line = 0 =>
            frames[w].result =
                Outcome(suggest_recipes(recipes, frames[w].user_ingredients,
                                        frames[w].top_k))

\* a call has returned a re-ordered list while another call, with other
\* ingredients, is inside its loop with one entry scored
C12_Witness ==
    /\ frames[1].line = 0
    /\ Len(frames[1].result.value) >= 2
    /\ frames[1].result.value[1].name = 2
    /\ frames[2].line = 115
    /\ frames[2].i = 2
    /\ frames[2].user_ingredients # frames[1].user_ingredients

----------------------------------------------------------------------------
(* C14, under ShellSpec *)

\* the slot of every started search has run and nothing is queued
AllSearchesHandled ==
    /\ searches # <<>>
    /\ \A i \in 1..Len(searches) : searches[i].handled
    /\ events = <<>>

\* once every search worker has finished, the results page shows the results
\* of the search submitted last
C14_LatestSearchShown ==
    AllSearchesHandled =>
        results_items =
            formatted(suggest_recipes(recipes, searches[Len(searches)].ingredients,
                                      WorkerTopK).value)

----------------------------------------------------------------------------
(* C15, under ShellSpec *)

\* nothing is left to run: the process was aborted, or every worker has
\* emitted its signal and every queued slot call and timer has been served
NothingLeftToRun ==
    \/ crashed
    \/ /\ \A i \in 1..Len(searches) : searches[i].worker = "emitted"
       /\ events = <<>>
       /\ timers = <<>>

\* every search thread that on_search started is told to quit: none is left
\* running when nothing is left to run
C15_EveryThreadToldToQuit ==
    NothingLeftToRun =>
        \A i \in 1..Len(searches) : searches[i].thread \in {"quit", "exited"}

----------------------------------------------------------------------------
(* C16, under ShellSpec *)

\* the loading overlay is visible as long as a started search has delivered
\* neither finished nor error
C16_OverlayWhileSearching ==
    (\E i \in 1..Len(searches) : ~searches[i].handled) => loading_visible

----------------------------------------------------------------------------
(* C17, under ShellSpec *)

\* whenever on_search shows the loading overlay, its label reads
\* "Looking for best recipes..."
C17_SearchLabel ==
    [][Len(searches') > Len(searches) =>
          loading_visible' /\ loading_label' = LookingLabel]_vars

====
